---- MODULE Spec2Model ----
(***************************************************************************)
(* Model of app.py: the Flask login route, the home route and the helper   *)
(* functions the home route calls (market data, news discovery, article    *)
(* extraction, sentiment scoring, agent pipeline, chart rendering).        *)
(*                                                                         *)
(* One client issues requests one after another.  The external services    *)
(* are the environment: each call's outcome (a value or a raised           *)
(* exception) is chosen nondeterministically.  Optional Python values are  *)
(* sequences of length 0 (None) or 1 (a value); formatted strings are      *)
(* tuples of their parts.                                                  *)
(***************************************************************************)
EXTENDS Integers, Sequences, FiniteSets, TLC

(* ------------------------------ bounds -------------------------------- *)
MaxPrice == 1
MaxSeries == 2
MaxNews == 2
PolScale == 1

(* ------------------------- values of the model ------------------------ *)
None == <<>>
Some(x) == <<x>>

Prices == (1..MaxPrice) \cup {190, 195}
Series == UNION {[1..n -> Prices] : n \in 0..MaxSeries}
Symbols == {"AAPL", "ZZZZ"}
Users == {"admin", "guest"}
Passwords == {"password123", "letmein"}
Links == {"http://a/1"}
Polarities == (-PolScale)..PolScale
Bodies == {"", "para text"}
FetchErrors == {"ConnectionError"}
AgentErrors == {"RateLimitError"}
Catalogs == {<<>>, <<"AAPL", "ZZZZ">>}

\* a news entry is the value of its 'link' field, or None when it has none
NewsEntries == {None} \cup {Some(l) : l \in Links}
NewsLists == UNION {[1..n -> NewsEntries] : n \in 0..MaxNews}
\* a response body: well-formed JSON with or without the 'news' field, or a
\* body json.loads rejects
NewsResponses == {[json |-> TRUE, has_news |-> FALSE, news |-> <<>>]}
                   \cup {[json |-> TRUE, has_news |-> TRUE, news |-> l] : l \in NewsLists}
MalformedBody == [json |-> FALSE, has_news |-> FALSE, news |-> <<>>]

(* ------------------------------ state --------------------------------- *)
VARIABLES
  session,             \* session['username']: None or Some(user)
  everCorrect,         \* history: some login POST carried the configured pair
  req,                 \* the request being (or last) handled
  pc,                  \* position of the handler
  response,            \* what the last finished request returned
  flashed,             \* messages flashed by the request
  raised,              \* exception that left the handler, or None
  invoked,             \* components called so far by the request
  stock_symbols, output_text, graph_html, stock_price,
  price_change_text, price_change_class,
  df,                  \* None before the fetch, Some(closes, newest first) after
  news_resp,           \* body the search provider answered with, or None
  news_links,          \* None before get_stock_news returns, Some(list) after
  article_details, i,  \* results and loop index of get_article_details
  fetch_res,           \* what requests.get did in the last iteration, or None
  content, polarity,   \* locals of the loop body (last iteration)
  market_fail,         \* history: the provider call of this request raised
  agent_fail           \* history: "none", "construct" or "kickoff"

vars == <<session, everCorrect, req, pc, response, flashed, raised, invoked,
          stock_symbols, output_text, graph_html, stock_price,
          price_change_text, price_change_class, df, news_resp, news_links,
          article_details, i, fetch_res, content, polarity, market_fail,
          agent_fail>>

locals == <<stock_symbols, output_text, graph_html, stock_price,
            price_change_text, price_change_class, df, news_resp, news_links,
            article_details, i, fetch_res, content, polarity, market_fail,
            agent_fail>>

(* --------------------------- pure functions --------------------------- *)
USER_CREDENTIALS == [u \in {"admin"} |-> "password123"]

\* variant: only the username is looked up
credentials_match_user_only(user, pwd) == user \in DOMAIN USER_CREDENTIALS

\* USER_CREDENTIALS.get(user) == pwd
credentials_match(user, pwd) ==
  (IF user \in DOMAIN USER_CREDENTIALS THEN Some(USER_CREDENTIALS[user]) ELSE None)
    = Some(pwd)

\* df.iloc[0]['4. close'] if not df.empty else None
get_latest_price(frame) == IF frame /= <<>> THEN Some(frame[1]) ELSE None

\* [article.get('link', '') for article in response_data.get('news', [])]
link_of(article) == IF article = None THEN "" ELSE article[1]

get_stock_news_links(resp) ==
  LET news == IF resp.has_news THEN resp.news ELSE <<>>
  IN  [k \in 1..Len(news) |-> link_of(news[k])]

\* the three outcomes of requests.get inside fetch_article_content
FetchOutcomes(url) ==
  IF url = ""
  THEN {[kind |-> "exception", text |-> "MissingSchema"]}
  ELSE {[kind |-> "ok", text |-> b] : b \in Bodies}
         \cup {[kind |-> "status", text |-> "404"]}
         \cup {[kind |-> "exception", text |-> e] : e \in FetchErrors}

fetch_article_content(res) ==
  CASE res.kind = "ok" -> res.text
    [] res.kind = "status" -> "Failed to fetch content"
    [] res.kind = "exception" -> res.text

\* variant: the first comparison is not strict
analyze_article_content_nonstrict(p) ==
  IF p >= 0 THEN "Positive sentiment detected"
  ELSE IF p < 0 THEN "Negative sentiment detected"
  ELSE "Neutral sentiment detected"

\* TextBlob(text).sentiment.polarity is p, scaled by PolScale
analyze_article_content(p) ==
  IF p > 0 THEN "Positive sentiment detected"
  ELSE IF p < 0 THEN "Negative sentiment detected"
  ELSE "Neutral sentiment detected"

Abs(x) == IF x < 0 THEN -x ELSE x

\* variant: the change is taken relative to the latest close
price_change_latest_base(new, old) == [num |-> (new - old) * 100, den |-> new]

\* ((stock_price - old_price) / old_price) * 100 as the fraction num / den
price_change(new, old) == [num |-> (new - old) * 100, den |-> old]

\* f"{price_change:+.2f}%": sign, whole part, two decimals (hundredths rounded
\* to nearest, an exact tie to the even neighbour), '%'
format_change(c) ==
  LET a == Abs(c.num) * 100
      q == a \div c.den
      r == a % c.den
      h == IF 2 * r > c.den THEN q + 1
           ELSE IF 2 * r < c.den THEN q
           ELSE IF q % 2 = 0 THEN q ELSE q + 1
  IN  <<IF c.num < 0 THEN "-" ELSE "+", h \div 100, h % 100, "%">>

\* "positive" if price_change >= 0 else "negative"
change_class(c) == IF c.num >= 0 THEN "positive" ELSE "negative"

(* ------------------------------- Init --------------------------------- *)
NoRequest == [route |-> "", method |-> "", username |-> "", password |-> "",
              stock_symbol |-> ""]

ResetLocals ==
  /\ stock_symbols' = <<>>
  /\ output_text' = <<>>
  /\ graph_html' = None
  /\ stock_price' = None
  /\ price_change_text' = None
  /\ price_change_class' = None
  /\ df' = None
  /\ news_resp' = None
  /\ news_links' = None
  /\ article_details' = <<>>
  /\ i' = 0
  /\ fetch_res' = None
  /\ content' = None
  /\ polarity' = None
  /\ market_fail' = FALSE
  /\ agent_fail' = "none"

Init ==
  /\ session = None
  /\ everCorrect = FALSE
  /\ req = NoRequest
  /\ pc = "idle"
  /\ response = "none"
  /\ flashed = <<>>
  /\ raised = None
  /\ invoked = {}
  /\ stock_symbols = <<>>
  /\ output_text = <<>>
  /\ graph_html = None
  /\ stock_price = None
  /\ price_change_text = None
  /\ price_change_class = None
  /\ df = None
  /\ news_resp = None
  /\ news_links = None
  /\ article_details = <<>>
  /\ i = 0
  /\ fetch_res = None
  /\ content = None
  /\ polarity = None
  /\ market_fail = FALSE
  /\ agent_fail = "none"

(* ----------------------------- login route ---------------------------- *)
login_get ==
  /\ pc = "idle"
  /\ req' = [NoRequest EXCEPT !.route = "login", !.method = "GET"]
  /\ response' = "login.html"
  /\ flashed' = <<>>
  /\ raised' = None
  /\ invoked' = {}
  /\ ResetLocals
  /\ UNCHANGED <<session, everCorrect, pc>>

login_post ==
  /\ pc = "idle"
  /\ \E user \in Users, pwd \in Passwords :
       /\ req' = [NoRequest EXCEPT !.route = "login", !.method = "POST",
                                   !.username = user, !.password = pwd]
       /\ everCorrect' = (everCorrect \/ (user = "admin" /\ pwd = "password123"))
       /\ IF credentials_match(user, pwd)
          THEN /\ session' = Some(user)
               /\ response' = "redirect:home"
               /\ flashed' = <<>>
          ELSE /\ session' = session
               /\ response' = "login.html"
               /\ flashed' = <<"Invalid credentials.">>
  /\ raised' = None
  /\ invoked' = {}
  /\ ResetLocals
  /\ UNCHANGED pc

(* ----------------------------- home route ----------------------------- *)
\* an exception leaves the handler: the framework answers 500
Abort(e) ==
  /\ raised' = Some(e)
  /\ response' = "500"
  /\ pc' = "idle"

\* lines 132-137: the locals of home() before the method test
HomeLocals ==
  /\ \E cat \in Catalogs : stock_symbols' = cat
  /\ output_text' = <<>>
  /\ graph_html' = None
  /\ stock_price' = None
  /\ price_change_text' = None
  /\ price_change_class' = None
  /\ df' = None
  /\ news_resp' = None
  /\ news_links' = None
  /\ article_details' = <<>>
  /\ i' = 0
  /\ fetch_res' = None
  /\ content' = None
  /\ polarity' = None
  /\ market_fail' = FALSE
  /\ agent_fail' = "none"
  /\ invoked' = {"catalog"}
  /\ flashed' = <<>>
  /\ raised' = None

home_get ==
  /\ pc = "idle"
  /\ req' = [NoRequest EXCEPT !.route = "home", !.method = "GET"]
  /\ HomeLocals
  /\ response' = "index.html"
  /\ UNCHANGED <<session, everCorrect, pc>>

\* variant: the handler first requires a logged-in session
home_post_begin_login_required ==
  /\ pc = "idle"
  /\ \E sym \in Symbols :
       req' = [NoRequest EXCEPT !.route = "home", !.method = "POST",
                                !.stock_symbol = sym]
  /\ HomeLocals
  /\ IF session = None
     THEN /\ response' = "redirect:login"
          /\ pc' = "idle"
     ELSE /\ response' = "none"
          /\ pc' = "intraday"
  /\ UNCHANGED <<session, everCorrect>>

home_post_begin ==
  /\ pc = "idle"
  /\ \E sym \in Symbols :
       req' = [NoRequest EXCEPT !.route = "home", !.method = "POST",
                                !.stock_symbol = sym]
  /\ HomeLocals
  /\ response' = "none"
  /\ pc' = "intraday"
  /\ UNCHANGED <<session, everCorrect>>

get_intraday_data ==
  /\ pc = "intraday"
  /\ invoked' = invoked \cup {"market"}
  /\ \/ /\ \E s \in Series : df' = Some(s)
        /\ pc' = "news"
        /\ UNCHANGED <<raised, response, market_fail>>
     \/ /\ Abort("ValueError")
        /\ market_fail' = TRUE
        /\ UNCHANGED df
  /\ UNCHANGED <<session, everCorrect, req, flashed, stock_symbols, output_text,
                 graph_html, stock_price, price_change_text, price_change_class,
                 news_resp, news_links, article_details, i, fetch_res, content,
                 polarity, agent_fail>>

get_stock_news ==
  /\ pc = "news"
  /\ invoked' = invoked \cup {"news"}
  /\ \/ /\ \E r \in NewsResponses :
             /\ news_resp' = Some(r)
             /\ news_links' = Some(get_stock_news_links(r))
        /\ pc' = "articles"
        /\ i' = 1
        /\ UNCHANGED <<raised, response>>
     \/ /\ news_resp' = Some(MalformedBody)
        /\ Abort("JSONDecodeError")
        /\ UNCHANGED <<news_links, i>>
     \/ /\ Abort("OSError")
        /\ UNCHANGED <<news_resp, news_links, i>>
  /\ UNCHANGED <<session, everCorrect, req, flashed, stock_symbols, output_text,
                 graph_html, stock_price, price_change_text, price_change_class,
                 df, article_details, fetch_res, content, polarity, market_fail,
                 agent_fail>>

\* variant: an article whose fetch did not succeed is dropped from the results
article_step_skip_failed ==
  /\ pc = "articles"
  /\ i <= Len(news_links[1])
  /\ LET link == news_links[1][i] IN
     \E res \in FetchOutcomes(link), p \in Polarities :
       /\ fetch_res' = Some(res)
       /\ content' = Some(fetch_article_content(res))
       /\ IF res.kind = "ok"
          THEN /\ polarity' = Some(p)
               /\ article_details' =
                    Append(article_details,
                           <<"Article from ", link, ": ", analyze_article_content(p)>>)
          ELSE UNCHANGED <<polarity, article_details>>
  /\ invoked' = invoked \cup {"extractor", "scorer"}
  /\ i' = i + 1
  /\ UNCHANGED <<session, everCorrect, req, pc, response, flashed, raised,
                 stock_symbols, output_text, graph_html, stock_price,
                 price_change_text, price_change_class, df, news_resp,
                 news_links, market_fail, agent_fail>>

\* one iteration of the loop of get_article_details
article_step ==
  /\ pc = "articles"
  /\ i <= Len(news_links[1])
  /\ LET link == news_links[1][i] IN
     \E res \in FetchOutcomes(link), p \in Polarities :
       /\ fetch_res' = Some(res)
       /\ content' = Some(fetch_article_content(res))
       /\ polarity' = Some(p)
       /\ article_details' =
            Append(article_details,
                   <<"Article from ", link, ": ", analyze_article_content(p)>>)
  /\ invoked' = invoked \cup {"extractor", "scorer"}
  /\ i' = i + 1
  /\ UNCHANGED <<session, everCorrect, req, pc, response, flashed, raised,
                 stock_symbols, output_text, graph_html, stock_price,
                 price_change_text, price_change_class, df, news_resp,
                 news_links, market_fail, agent_fail>>

\* get_article_details returns: the locals of its loop body go out of scope
article_return ==
  /\ pc = "articles"
  /\ i > Len(news_links[1])
  /\ fetch_res' = None
  /\ content' = None
  /\ polarity' = None
  /\ pc' = "check"
  /\ UNCHANGED <<session, everCorrect, req, response, flashed, raised, invoked,
                 stock_symbols, output_text, graph_html, stock_price,
                 price_change_text, price_change_class, df, news_resp,
                 news_links, article_details, i, market_fail, agent_fail>>

\* variant: the plotting block is not inside the else branch
check_df_plot_always ==
  /\ pc = "check"
  /\ IF df[1] = <<>>
     THEN /\ output_text' = <<"No data available for symbol ", req.stock_symbol>>
          /\ pc' = "plot"
          /\ UNCHANGED <<stock_price, price_change_text, price_change_class>>
     ELSE LET frame == df[1]
              old_price == frame[Len(frame)]
              c == price_change(get_latest_price(frame)[1], old_price)
          IN  /\ stock_price' = get_latest_price(frame)
              /\ price_change_text' = Some(format_change(c))
              /\ price_change_class' = Some(change_class(c))
              /\ pc' = "agents"
              /\ UNCHANGED output_text
  /\ UNCHANGED <<session, everCorrect, req, response, flashed, raised, invoked,
                 stock_symbols, graph_html, df, news_resp, news_links,
                 article_details, i, fetch_res, content, polarity, market_fail,
                 agent_fail>>

\* lines 145-158: the empty test and the price computations
check_df ==
  /\ pc = "check"
  /\ IF df[1] = <<>>
     THEN /\ output_text' = <<"No data available for symbol ", req.stock_symbol>>
          /\ pc' = "render"
          /\ UNCHANGED <<stock_price, price_change_text, price_change_class>>
     ELSE LET frame == df[1]
              old_price == frame[Len(frame)]
              c == price_change(get_latest_price(frame)[1], old_price)
          IN  /\ stock_price' = get_latest_price(frame)
              /\ price_change_text' = Some(format_change(c))
              /\ price_change_class' = Some(change_class(c))
              /\ pc' = "agents"
              /\ UNCHANGED output_text
  /\ UNCHANGED <<session, everCorrect, req, response, flashed, raised, invoked,
                 stock_symbols, graph_html, df, news_resp, news_links,
                 article_details, i, fetch_res, content, polarity, market_fail,
                 agent_fail>>

\* create_agents(), the three Task(...) and Crew(...): outside the try block
create_agents ==
  /\ pc = "agents"
  /\ invoked' = invoked \cup {"agents"}
  /\ \/ /\ pc' = "kickoff"
        /\ UNCHANGED <<raised, response, agent_fail>>
     \/ /\ \E e \in AgentErrors : Abort(e)
        /\ agent_fail' = "construct"
  /\ UNCHANGED <<session, everCorrect, req, flashed, stock_symbols, output_text,
                 graph_html, stock_price, price_change_text, price_change_class,
                 df, news_resp, news_links, article_details, i, fetch_res,
                 content, polarity, market_fail>>

\* variant: crew.kickoff() is called without the try block
kickoff_no_try ==
  /\ pc = "kickoff"
  /\ \/ /\ output_text' = <<"CrewOutput">>
        /\ pc' = "plot"
        /\ UNCHANGED <<agent_fail, raised, response>>
     \/ /\ \E e \in AgentErrors : Abort(e)
        /\ agent_fail' = "kickoff"
        /\ UNCHANGED output_text
  /\ UNCHANGED <<session, everCorrect, req, flashed, invoked,
                 stock_symbols, graph_html, stock_price, price_change_text,
                 price_change_class, df, news_resp, news_links, article_details,
                 i, fetch_res, content, polarity, market_fail>>

\* try: output_text = crew.kickoff()  except Exception as e: ...
kickoff ==
  /\ pc = "kickoff"
  /\ \/ /\ output_text' = <<"CrewOutput">>
        /\ UNCHANGED agent_fail
     \/ /\ \E e \in AgentErrors :
             output_text' = <<"Error during execution: ", e>>
        /\ agent_fail' = "kickoff"
  /\ pc' = "plot"
  /\ UNCHANGED <<session, everCorrect, req, response, flashed, raised, invoked,
                 stock_symbols, graph_html, stock_price, price_change_text,
                 price_change_class, df, news_resp, news_links, article_details,
                 i, fetch_res, content, polarity, market_fail>>

\* lines 190-205: the chart of the closes, serialised to markup
plot ==
  /\ pc = "plot"
  /\ invoked' = invoked \cup {"chart"}
  /\ graph_html' = Some(<<"chart", req.stock_symbol, df[1]>>)
  /\ pc' = "render"
  /\ UNCHANGED <<session, everCorrect, req, response, flashed, raised,
                 stock_symbols, output_text, stock_price, price_change_text,
                 price_change_class, df, news_resp, news_links, article_details,
                 i, fetch_res, content, polarity, market_fail, agent_fail>>

\* lines 207-215: render_template('index.html', ...) with the locals
render ==
  /\ pc = "render"
  /\ response' = "index.html"
  /\ pc' = "idle"
  /\ UNCHANGED <<session, everCorrect, req, flashed, raised, invoked, locals>>

Next ==
  \/ login_get
  \/ login_post
  \/ home_get
  \/ home_post_begin
  \/ get_intraday_data
  \/ get_stock_news
  \/ article_step
  \/ article_return
  \/ check_df
  \/ create_agents
  \/ kickoff
  \/ plot
  \/ render

Spec == Init /\ [][Next]_vars

(* ============================== claims ================================ *)
Labels == {"Positive sentiment detected", "Negative sentiment detected",
           "Neutral sentiment detected"}

HomePost == req.route = "home" /\ req.method = "POST"
Rendered == pc = "idle" /\ response = "index.html"
NoDataText == <<"No data available for symbol ", req.stock_symbol>>

C2_LoginOnlyWithConfiguredPair ==
  /\ [](session /= None => everCorrect)
  /\ [][(pc = "idle" /\ req'.route = "login" /\ req'.method = "POST") =>
          IF req'.username = "admin" /\ req'.password = "password123"
          THEN /\ session' = Some("admin")
               /\ response' = "redirect:home"
               /\ flashed' = <<>>
          ELSE /\ session' = session
               /\ response' = "login.html"
               /\ flashed' = <<"Invalid credentials.">>]_vars

C2_Witness ==
  /\ req.route = "login" /\ req.method = "POST"
  /\ req.username = "admin" /\ req.password = "password123"
  /\ session = Some("admin") /\ response = "redirect:home"

\* C3: when the market-data provider call fails, the failure surfaces as an
\* empty series, no exception leaves the handler, and the request ends with the
\* template rendered with the 'No data available' text.
C3_ProviderFailureIsEmptySeries ==
  market_fail =>
    /\ df = Some(<<>>)
    /\ raised = None
    /\ (pc = "idle" => (response = "index.html" /\ output_text = NoDataText))

\* C4 as stated: an exception at any step of the agent pipeline (constructing
\* the agents, tasks or crew, or the run) is caught: the request ends rendered
\* with the error string, the chart and the price fields.
C4_AnyPipelineExceptionCaught ==
  (agent_fail /= "none" /\ pc = "idle") =>
    /\ response = "index.html"
    /\ raised = None
    /\ output_text \in {<<"Error during execution: ", e>> : e \in AgentErrors}
    /\ "chart" \in invoked
    /\ graph_html /= None
    /\ stock_price /= None
    /\ price_change_text /= None
    /\ price_change_class /= None

\* C4 amended: an exception raised by crew.kickoff() is caught: output_text is
\* 'Error during execution: <exception>' alone, the chart is rendered after the
\* failed run and the template receives the latest price, the change text and
\* class and the chart markup.  An exception raised while constructing the
\* agents, tasks or crew leaves the handler: nothing is rendered.
C4_KickoffExceptionCaught ==
  /\ agent_fail = "kickoff" =>
       /\ raised = None
       /\ output_text \in {<<"Error during execution: ", e>> : e \in AgentErrors}
       /\ pc \in {"plot", "render", "idle"}
       /\ pc \in {"render", "idle"} =>
            /\ "chart" \in invoked
            /\ graph_html = Some(<<"chart", req.stock_symbol, df[1]>>)
       /\ pc = "idle" =>
            /\ response = "index.html"
            /\ stock_price = Some(df[1][1])
            /\ price_change_text /= None
            /\ price_change_class /= None
  /\ agent_fail = "construct" =>
       /\ pc = "idle"
       /\ response = "500"
       /\ raised /= None
       /\ graph_html = None

C4_Witness ==
  /\ agent_fail = "kickoff" /\ HomePost /\ Rendered
  /\ output_text = <<"Error during execution: ", "RateLimitError">>
  /\ graph_html /= None

\* C5: no exception of an article fetch leaves get_article_details; a non-200
\* status gives the content 'Failed to fetch content', an exception gives its
\* message, and every content is scored; the results hold exactly one
\* 'Article from <link>: <label>' entry per link handled, in the order of the
\* links.
C5_OneEntryPerLink ==
  /\ raised \notin {Some(e) : e \in FetchErrors \cup {"MissingSchema"}}
  /\ fetch_res /= None =>
       /\ content /= None
       /\ polarity /= None
       /\ fetch_res[1].kind = "status" => content = Some("Failed to fetch content")
       /\ fetch_res[1].kind = "exception" => content = Some(fetch_res[1].text)
  /\ news_links /= None =>
       LET links == news_links[1]
           done == IF pc = "articles" THEN i - 1 ELSE Len(links)
       IN  /\ Len(article_details) = done
           /\ \A k \in 1..Len(article_details) :
                /\ article_details[k][1] = "Article from "
                /\ article_details[k][2] = links[k]
                /\ article_details[k][3] = ": "
                /\ article_details[k][4] \in Labels

C5_Witness ==
  /\ pc = "articles"
  /\ Len(news_links[1]) >= 1
  /\ i > Len(news_links[1])
  /\ fetch_res[1].kind /= "ok"
  /\ Len(article_details) = Len(news_links[1])

\* C6: for a non-empty series (newest first) with latest close new = first
\* sample and oldest close old = last sample, price_change_text is
\* (new - old) / old * 100 with an explicit sign, rounded to two decimals and
\* followed by '%'; price_change_class is 'positive' exactly when new >= old;
\* a zero change gives '+0.00%' and 'positive'; 190 -> 195 gives '+2.63%'.
C6_PercentageChange ==
  price_change_text /= None =>
    LET frame == df[1]
        new == frame[1]
        old == frame[Len(frame)]
        t == price_change_text[1]
        h == t[2] * 100 + t[3]
        mag == IF new >= old THEN new - old ELSE old - new
    IN  /\ stock_price = Some(new)
        /\ t[1] = (IF new >= old THEN "+" ELSE "-")
        /\ t[2] >= 0 /\ t[3] \in 0..99 /\ t[4] = "%"
        \* h hundredths is a nearest multiple of 0.01 to |change|
        /\ 2 * (h * old - mag * 10000) <= old
        /\ 2 * (mag * 10000 - h * old) <= old
        /\ price_change_class = Some(IF new >= old THEN "positive" ELSE "negative")
        /\ new = old => (t = <<"+", 0, 0, "%">> /\ price_change_class = Some("positive"))
        /\ (old = 190 /\ new = 195) =>
             (t = <<"+", 2, 63, "%">> /\ price_change_class = Some("positive"))

C6_Witness ==
  /\ df /= None /\ Len(df[1]) = 2 /\ df[1][1] = 195 /\ df[1][2] = 190
  /\ price_change_text = Some(<<"+", 2, 63, "%">>)
  /\ price_change_class = Some("positive")

\* C7: a response without 'news' gives an empty URL list, an entry without
\* 'link' contributes no URL (and no article entry), and a body that is not
\* well-formed does not raise out of the client.
C7_MissingFieldsAbsent ==
  news_resp /= None =>
    /\ raised /= Some("JSONDecodeError")
    /\ news_links /= None
    /\ ~news_resp[1].has_news => news_links[1] = <<>>
    /\ Len(news_links[1]) = Cardinality({k \in 1..Len(news_resp[1].news) :
                                           news_resp[1].news[k] /= None})
    /\ \A k \in 1..Len(news_links[1]) : news_links[1][k] /= ""
    /\ \A k \in 1..Len(article_details) : article_details[k][2] /= ""

\* C8: the label is 'Positive sentiment detected' when the polarity is > 0,
\* 'Negative sentiment detected' when it is < 0 and 'Neutral sentiment
\* detected' when it is 0, for every content scored (empty text and fetch
\* failure strings included).
C8_ThreeWayClassification ==
  polarity /= None =>
    LET p == polarity[1]
        label == article_details[Len(article_details)][4]
    IN  /\ label \in Labels
        /\ p > 0 <=> label = "Positive sentiment detected"
        /\ p < 0 <=> label = "Negative sentiment detected"
        /\ p = 0 <=> label = "Neutral sentiment detected"

C8_Witness ==
  /\ polarity = Some(0)
  /\ content = Some("Failed to fetch content")
  /\ article_details[Len(article_details)][4] = "Neutral sentiment detected"

\* C9: with an empty series none of the stages after the Market Data Client
\* (news discovery, article extractor, sentiment scorer, agent pipeline, chart
\* renderer) is invoked for the request.
C9_EmptySeriesShortCircuits ==
  (HomePost /\ df = Some(<<>>)) =>
    invoked \cap {"news", "extractor", "scorer", "agents", "chart"} = {}

\* C10: the home handler never modifies the session, and a request to the home
\* route is never turned away for lack of one: a GET ends with the template
\* rendered, a POST enters the pipeline and ends rendered or with an exception
\* of one of its stages, whether or not a login ever succeeded.
C10_HomeIgnoresSession ==
  /\ [](req.route = "home" =>
          /\ (pc = "idle" => response \in {"index.html", "500"})
          /\ (pc = "idle" /\ req.method = "POST") => "market" \in invoked
          /\ (req.method = "GET") => (pc = "idle" /\ response = "index.html"))
  /\ [][req'.route = "home" => session' = session]_vars

C10_Witness ==
  /\ HomePost /\ Rendered
  /\ session = None /\ ~everCorrect
  /\ {"market", "news", "extractor", "scorer", "agents", "chart"} \subseteq invoked
  /\ output_text = <<"CrewOutput">>

====
